---- MODULE Spec2Model ----
(***************************************************************************)
(* The hub-and-spoke orchestrator of src/LC.py: a LangGraph star graph     *)
(* whose hub routes a task through the specialists of SPECIALISTS, one at  *)
(* a time, and synthesizes a final answer once all of them have answered.  *)
(*                                                                         *)
(* A node that calls llm.invoke is modelled in two steps, the call and its *)
(* return (or its exception): the call is the one point where the run      *)
(* suspends on the external Generation Service.                            *)
(***************************************************************************)
EXTENDS Integers, Sequences, FiniteSets, TLC

\* ---------------------------------------------------------------- bounds

\* Rosters of up to MaxRoster specialists are explored (plus the roster of
\* the source, see Rosters).
MaxRoster == 3

\* The Generation Service answers with one of NumReplies different texts.
NumReplies == 2

\* ------------------------------------------------------------- constants

START == "__start__"

END == "__end__"

\* The keys of SPECIALISTS, in the order the dict literal inserts them.
CodeRoster == <<"researcher", "analyst", "critic", "writer">>

WorkerNames == {CodeRoster[i] : i \in DOMAIN CodeRoster}

\* The system prompt of a specialist (the dict's values, abbreviated).
system_prompt(name) ==
    CASE name = "researcher" -> "You are a knowledgeable researcher."
      [] name = "analyst"    -> "You are a data analyst."
      [] name = "critic"     -> "You are a critical thinker."
      [] name = "writer"     -> "You are a skilled writer."
      [] OTHER               -> "?"

\* The system prompt of the hub's synthesis call.
HubPrompt == "You are an orchestrator."

\* The task of __main__.
task == "What are the main benefits and challenges of adopting renewable energy?"

ReplyTexts == <<"reply-a", "reply-b", "reply-c", "reply-d">>

\* What the Generation Service may answer.
Replies == {ReplyTexts[i] : i \in 1..NumReplies}

\* A dict maps each key once: a roster is a sequence without repetition.
InjectiveSeqs(n) ==
    {s \in [1..n -> WorkerNames] : \A i, j \in 1..n : i # j => s[i] # s[j]}

\* The rosters explored: every one of at most MaxRoster specialists, the
\* empty one included, and the roster of the source.
Rosters == UNION {InjectiveSeqs(n) : n \in 0..MaxRoster} \cup {CodeRoster}

\* ----------------------------------------------------------------- state

VARIABLES
    SPECIALISTS,  \* the roster: the keys of the dict, in order
    messages,     \* AgentState.messages
    next,         \* AgentState.next
    visited,      \* AgentState.visited
    node,         \* the node the executor runs (or is about to run)
    pending,      \* the llm.invoke call in flight, or NoCall
    error,        \* the exception app.invoke raised, or "none"
    calls,        \* history: every llm.invoke issued, [by, request]
    wrote,        \* history: every message a node returned, [by, id]
    steps         \* history: the nodes executed, in order

vars == <<SPECIALISTS, messages, next, visited, node, pending, error,
          calls, wrote, steps>>

NoCall == [by |-> "", request |-> <<>>]

\* name in visited
Contains(seq, x) == \E i \in DOMAIN seq : seq[i] = x

HumanMessage(content) == [id |-> 1, type |-> "human", content |-> content]

SystemMessage(content) == [id |-> 0, type |-> "system", content |-> content]

\* Mutant of AIMessage: every response carries the same id, so the reducer
\* takes the second response for an update of the first.
AIMessage_same_id(content) == [id |-> 2, type |-> "ai", content |-> content]

\* The message the service returns to the call in flight: every response
\* carries an id of its own.
AIMessage(content) == [id |-> Len(calls) + 1, type |-> "ai", content |-> content]

\* Mutant of add_messages: a channel without reducer, where the update of a
\* node overwrites the list.
add_messages_overwrite(left, right) == right

\* The reducer of AgentState.messages: a message whose id is already in the
\* list replaces that entry, any other message is appended.
RECURSIVE add_messages(_, _)
add_messages(left, right) ==
    IF right = <<>> THEN left
    ELSE LET m == Head(right)
             hit == {i \in DOMAIN left : left[i].id = m.id}
         IN  add_messages(
                 IF hit = {} THEN Append(left, m)
                 ELSE [left EXCEPT ![CHOOSE i \in hit : TRUE] = m],
                 Tail(right))

\* Mutant of hub_next: the scan stops before the last specialist.
hub_next_skip_last(vis) ==
    LET unv == {i \in 1..(Len(SPECIALISTS) - 1) : ~Contains(vis, SPECIALISTS[i])}
    IN  IF unv = {} THEN END
        ELSE SPECIALISTS[CHOOSE i \in unv : \A j \in unv : i <= j]

\* Mutant of hub_next: the scan runs over the roster in reverse.
hub_next_reversed(vis) ==
    LET unv == {i \in DOMAIN SPECIALISTS : ~Contains(vis, SPECIALISTS[i])}
    IN  IF unv = {} THEN END
        ELSE SPECIALISTS[CHOOSE i \in unv : \A j \in unv : i >= j]

\* Mutant of hub_next: the hub lets the last reply choose the end of the
\* roster it scans from.
hub_next_by_content(vis) ==
    LET unv == {i \in DOMAIN SPECIALISTS : ~Contains(vis, SPECIALISTS[i])}
        last == messages[Len(messages)].content
    IN  IF unv = {} THEN END
        ELSE IF last = ReplyTexts[2]
             THEN SPECIALISTS[CHOOSE i \in unv : \A j \in unv : i >= j]
             ELSE SPECIALISTS[CHOOSE i \in unv : \A j \in unv : i <= j]

\* Mutant of hub_next: the scan tests the visited list without its latest
\* entry.
hub_next_stale(vis) ==
    LET old == SubSeq(vis, 1, Len(vis) - 1)
        unv == {i \in DOMAIN SPECIALISTS : ~Contains(old, SPECIALISTS[i])}
    IN  IF unv = {} THEN END
        ELSE SPECIALISTS[CHOOSE i \in unv : \A j \in unv : i <= j]

\* The hub's scan: the first specialist, in the order of SPECIALISTS, that
\* is not in vis; END when there is none.
hub_next(vis) ==
    LET unv == {i \in DOMAIN SPECIALISTS : ~Contains(vis, SPECIALISTS[i])}
    IN  IF unv = {} THEN END
        ELSE SPECIALISTS[CHOOSE i \in unv : \A j \in unv : i <= j]

\* Mutant of route_from_hub: the edge map sends every specialist's name to
\* the first spoke.
route_from_hub_first(nxt) == IF nxt = END THEN END ELSE SPECIALISTS[1]

\* Mutant of route_from_hub: the edge map lacks the specialists' names, so
\* that a route to a spoke leads to no node of the graph.
route_from_hub_unmapped(nxt) == IF nxt = END THEN END ELSE "unmapped"

\* The conditional edge out of the hub: the node named by state["next"].
route_from_hub(nxt) == nxt

\* ------------------------------------------------------------------ init

Init ==
    /\ SPECIALISTS \in Rosters
    /\ messages = <<HumanMessage(task)>>
    /\ visited = <<>>
    /\ next = ""
    /\ node = START
    /\ pending = NoCall
    /\ error = "none"
    /\ calls = <<>>
    /\ wrote = <<>>
    /\ steps = <<>>

\* --------------------------------------------------------------- actions

\* Mutant of Running: the executor does not wait for the call in flight.
Running_not_waiting == error = "none"

Running == error = "none" /\ pending = NoCall

\* graph.add_edge(START, "hub")
Start ==
    /\ Running
    /\ node = START
    /\ node' = "hub"
    /\ UNCHANGED <<SPECIALISTS, messages, next, visited, pending, error,
                   calls, wrote, steps>>

\* Mutant of HubRoute: the hub picks any specialist that is not in visited
\* (the roster kept as a set, whose iteration order is not fixed).
HubRoute_any_unvisited ==
    /\ Running
    /\ node = "hub"
    /\ \E i \in DOMAIN SPECIALISTS :
          /\ ~Contains(visited, SPECIALISTS[i])
          /\ next' = SPECIALISTS[i]
    /\ node' = route_from_hub(next')
    /\ steps' = Append(steps, "hub")
    /\ UNCHANGED <<SPECIALISTS, messages, visited, pending, error, calls, wrote>>

\* hub, a spoke is still pending: return {"next": name}; the conditional
\* edge then hands control to that spoke.
HubRoute ==
    /\ Running
    /\ node = "hub"
    /\ hub_next(visited) # END
    /\ next' = hub_next(visited)
    /\ node' = route_from_hub(next')
    /\ steps' = Append(steps, "hub")
    /\ UNCHANGED <<SPECIALISTS, messages, visited, pending, error, calls, wrote>>

\* Mutant of HubInvoke: the synthesis call is given the last message only.
HubInvoke_last_only ==
    /\ Running
    /\ node = "hub"
    /\ hub_next(visited) = END
    /\ pending' = [by |-> "hub",
                   request |-> <<SystemMessage(HubPrompt), messages[Len(messages)]>>]
    /\ calls' = Append(calls, pending')
    /\ steps' = Append(steps, "hub")
    /\ UNCHANGED <<SPECIALISTS, messages, next, visited, node, error, wrote>>

\* hub, all spokes done: llm.invoke([system] + state["messages"])
HubInvoke ==
    /\ Running
    /\ node = "hub"
    /\ hub_next(visited) = END
    /\ pending' = [by |-> "hub",
                   request |-> <<SystemMessage(HubPrompt)>> \o messages]
    /\ calls' = Append(calls, pending')
    /\ steps' = Append(steps, "hub")
    /\ UNCHANGED <<SPECIALISTS, messages, next, visited, node, error, wrote>>

\* Mutant of HubReturn: the hub's final update also clears "visited".
HubReturn_clears_visited(content) ==
    /\ error = "none"
    /\ pending.by = "hub"
    /\ LET response == AIMessage(content)
       IN  /\ messages' = add_messages(messages, <<response>>)
           /\ wrote' = Append(wrote, [by |-> "hub", id |-> response.id])
    /\ next' = END
    /\ node' = route_from_hub(next')
    /\ pending' = NoCall
    /\ visited' = <<>>
    /\ UNCHANGED <<SPECIALISTS, error, calls, steps>>

\* hub, the synthesis call returns: return {"messages": [response],
\* "next": END}; the conditional edge then ends the run.
HubReturn(content) ==
    /\ error = "none"
    /\ pending.by = "hub"
    /\ LET response == AIMessage(content)
       IN  /\ messages' = add_messages(messages, <<response>>)
           /\ wrote' = Append(wrote, [by |-> "hub", id |-> response.id])
    /\ next' = END
    /\ node' = route_from_hub(next')
    /\ pending' = NoCall
    /\ UNCHANGED <<SPECIALISTS, visited, error, calls, steps>>

\* Mutant of SpokeInvoke: the spoke sends its prompt and the task only.
SpokeInvoke_task_only(name) ==
    /\ Running
    /\ node = name
    /\ Contains(SPECIALISTS, name)
    /\ pending' = [by |-> name,
                   request |-> <<SystemMessage(system_prompt(name)), messages[1]>>]
    /\ calls' = Append(calls, pending')
    /\ steps' = Append(steps, name)
    /\ UNCHANGED <<SPECIALISTS, messages, next, visited, node, error, wrote>>

\* spoke: llm.invoke([system] + state["messages"])
SpokeInvoke(name) ==
    /\ Running
    /\ node = name
    /\ Contains(SPECIALISTS, name)
    /\ pending' = [by |-> name,
                   request |-> <<SystemMessage(system_prompt(name))>> \o messages]
    /\ calls' = Append(calls, pending')
    /\ steps' = Append(steps, name)
    /\ UNCHANGED <<SPECIALISTS, messages, next, visited, node, error, wrote>>

\* Mutant of SpokeReturn: the spoke returns its message and leaves "visited"
\* out of its update.
SpokeReturn_no_visited(name, content) ==
    /\ error = "none"
    /\ pending.by = name
    /\ Contains(SPECIALISTS, name)
    /\ LET response == AIMessage(content)
       IN  /\ messages' = add_messages(messages, <<response>>)
           /\ wrote' = Append(wrote, [by |-> name, id |-> response.id])
    /\ node' = "hub"
    /\ pending' = NoCall
    /\ UNCHANGED <<SPECIALISTS, visited, next, error, calls, steps>>

\* Mutant of SpokeReturn: the spoke returns [name] for "visited", without
\* the list it read.
SpokeReturn_resets_visited(name, content) ==
    /\ error = "none"
    /\ pending.by = name
    /\ Contains(SPECIALISTS, name)
    /\ LET response == AIMessage(content)
       IN  /\ messages' = add_messages(messages, <<response>>)
           /\ wrote' = Append(wrote, [by |-> name, id |-> response.id])
    /\ visited' = <<name>>
    /\ node' = "hub"
    /\ pending' = NoCall
    /\ UNCHANGED <<SPECIALISTS, next, error, calls, steps>>

\* Mutant of SpokeReturn: the spoke's edge leads to the next spoke of the
\* roster (a chain), and to the hub only from the last one.
SpokeReturn_chained(name, content) ==
    /\ error = "none"
    /\ pending.by = name
    /\ Contains(SPECIALISTS, name)
    /\ LET response == AIMessage(content)
       IN  /\ messages' = add_messages(messages, <<response>>)
           /\ wrote' = Append(wrote, [by |-> name, id |-> response.id])
    /\ visited' = visited \o <<name>>
    /\ node' = IF hub_next(visited') = END THEN "hub" ELSE hub_next(visited')
    /\ pending' = NoCall
    /\ UNCHANGED <<SPECIALISTS, next, error, calls, steps>>

\* Mutant of SpokeReturn: the spoke returns [name] + visited.
SpokeReturn_prepends(name, content) ==
    /\ error = "none"
    /\ pending.by = name
    /\ Contains(SPECIALISTS, name)
    /\ LET response == AIMessage(content)
       IN  /\ messages' = add_messages(messages, <<response>>)
           /\ wrote' = Append(wrote, [by |-> name, id |-> response.id])
    /\ visited' = <<name>> \o visited
    /\ node' = "hub"
    /\ pending' = NoCall
    /\ UNCHANGED <<SPECIALISTS, next, error, calls, steps>>

\* spoke, the call returns: return {"messages": [response],
\* "visited": visited + [name]}; graph.add_edge(name, "hub")
SpokeReturn(name, content) ==
    /\ error = "none"
    /\ pending.by = name
    /\ Contains(SPECIALISTS, name)
    /\ LET response == AIMessage(content)
       IN  /\ messages' = add_messages(messages, <<response>>)
           /\ wrote' = Append(wrote, [by |-> name, id |-> response.id])
    /\ visited' = visited \o <<name>>
    /\ node' = "hub"
    /\ pending' = NoCall
    /\ UNCHANGED <<SPECIALISTS, next, error, calls, steps>>

\* Mutant of LlmRaise: the failing node is marked visited before the
\* exception leaves the run.
LlmRaise_marks_visited ==
    /\ error = "none"
    /\ pending # NoCall
    /\ error' = "GenerationFailure"
    /\ pending' = NoCall
    /\ visited' = visited \o <<pending.by>>
    /\ UNCHANGED <<SPECIALISTS, messages, next, node, calls, wrote, steps>>

\* Mutant of LlmRaise: the hub catches the exception of its synthesis call
\* and ends the run as if it had synthesized.
LlmRaise_hub_ends_run ==
    /\ error = "none"
    /\ pending # NoCall
    /\ error' = "GenerationFailure"
    /\ pending' = NoCall
    /\ next' = IF pending.by = "hub" THEN END ELSE next
    /\ node' = IF pending.by = "hub" THEN END ELSE node
    /\ UNCHANGED <<SPECIALISTS, messages, visited, calls, wrote, steps>>

\* llm.invoke raises: no node catches it, app.invoke raises it, and the
\* node's update is never applied.
LlmRaise ==
    /\ error = "none"
    /\ pending # NoCall
    /\ error' = "GenerationFailure"
    /\ pending' = NoCall
    /\ UNCHANGED <<SPECIALISTS, messages, next, visited, node, calls, wrote, steps>>

Next ==
    \/ Start
    \/ HubRoute
    \/ HubInvoke
    \/ \E content \in Replies : HubReturn(content)
    \/ \E name \in WorkerNames : SpokeInvoke(name)
    \/ \E name \in WorkerNames, content \in Replies : SpokeReturn(name, content)
    \/ LlmRaise

Spec == Init /\ [][Next]_vars

\* The executor is synchronous: a node that is due and waits for no call
\* runs. Nothing is assumed of the Generation Service: a call may return,
\* raise, or stay pending for ever.
LiveSpec ==
    /\ Init
    /\ [][Next]_vars
    /\ WF_vars(Start)
    /\ WF_vars(HubRoute)
    /\ WF_vars(HubInvoke)
    /\ WF_vars(\E name \in WorkerNames : SpokeInvoke(name))

\* -------------------------------------------- the hub on any visited list

\* The hub reads whatever "visited" the caller of app.invoke seeded: here
\* the run starts from any list of specialist names, in any order, with
\* repetitions and with names that are not in the roster.
AnyVisited == UNION {[1..n -> WorkerNames] : n \in 0..MaxRoster}

InitAnyVisited ==
    /\ SPECIALISTS \in Rosters
    /\ messages = <<HumanMessage(task)>>
    /\ visited \in AnyVisited
    /\ next = ""
    /\ node = START
    /\ pending = NoCall
    /\ error = "none"
    /\ calls = <<>>
    /\ wrote = <<>>
    /\ steps = <<>>

SpecAnyVisited == InitAnyVisited /\ [][Next]_vars

\* ---------------------------------------------------------------- claims

N == Len(SPECIALISTS)

RosterSet == {SPECIALISTS[i] : i \in DOMAIN SPECIALISTS}

VisitedSet == {visited[i] : i \in DOMAIN visited}

Terminated == node = END

IsPrefix(s, t) == Len(s) <= Len(t) /\ SubSeq(t, 1, Len(s)) = s

IsWorkerCall(c) == c.by # "hub"

IsWorkerStep(n) == n # "hub"

\* The llm.invoke calls of the spokes, and the spokes executed, in order.
WorkerCalls == SelectSeq(calls, IsWorkerCall)

WorkerSteps == SelectSeq(steps, IsWorkerStep)

HubSteps == Cardinality({i \in DOMAIN steps : steps[i] = "hub"})

\* The messages of the history that the node `by` returned.
Contributions(by) ==
    {i \in DOMAIN messages :
        \E w \in DOMAIN wrote : wrote[w].by = by /\ wrote[w].id = messages[i].id}

NumWroteBy(by) == Cardinality({w \in DOMAIN wrote : wrote[w].by = by})

\* C1: for a roster of N >= 1 specialists, a synthesis call is only ever
\* the (N+1)-th call, after N spoke calls of pairwise distinct specialists
\* of the roster; a terminated run has made exactly these N+1 calls, and
\* has gone through exactly N hub-to-spoke cycles.
C1_NWorkerCallsThenOneSynthesis ==
    N >= 1 =>
      /\ \A i \in DOMAIN calls :
            calls[i].by = "hub" =>
              /\ i = N + 1
              /\ \A j \in 1..(i - 1) : calls[j].by \in RosterSet
              /\ \A j, k \in 1..(i - 1) : j # k => calls[j].by # calls[k].by
      /\ Terminated =>
              /\ Len(calls) = N + 1
              /\ calls[N + 1].by = "hub"
              /\ Len(WorkerCalls) = N
              /\ Len(WorkerSteps) = N
              /\ HubSteps = N + 1

C1_Witness == Terminated /\ N = 3 /\ Len(WorkerCalls) = 3

\* C2: in the terminal state visited holds exactly the roster, and the
\* history is the task message, then the N contributions of the spokes,
\* then the synthesis message of the hub.
C2_TerminalState ==
    Terminated =>
      /\ VisitedSet = RosterSet
      /\ Len(visited) = N
      /\ Len(messages) = N + 2
      /\ messages[1] = HumanMessage(task)
      /\ Len(wrote) = N + 1
      /\ \A i \in 1..N :
            /\ wrote[i].by \in RosterSet
            /\ messages[i + 1].id = wrote[i].id
            /\ messages[i + 1].type = "ai"
      /\ wrote[N + 1].by = "hub"
      /\ messages[N + 2].id = wrote[N + 1].id

C2_Witness == Terminated /\ N = 3 /\ Len(messages) = 5

\* C3: in every state, of a successful or of an aborted run, visited holds
\* only specialists of the roster, a specialist is in visited exactly when
\* the history holds exactly one message of its own, and no specialist has
\* ever returned more than one message.
C3_VisitedIffOneContribution ==
    /\ VisitedSet \subseteq RosterSet
    /\ \A name \in WorkerNames :
          /\ Contains(visited, name) <=> Cardinality(Contributions(name)) = 1
          /\ Cardinality(Contributions(name)) <= 1
          /\ NumWroteBy(name) <= 1
          /\ NumWroteBy(name) = Cardinality(Contributions(name))

C3_Witness ==
    /\ error = "GenerationFailure"
    /\ N = 3
    /\ Len(visited) = 2
    /\ Cardinality(Contributions(visited[1])) = 1
    /\ Cardinality(Contributions(SPECIALISTS[3])) = 0

\* What a hub step must do, read off the roster and the visited list: route
\* to the first specialist that is not in visited, or start the synthesis
\* when there is none.
HubStepDecides ==
    LET unv == {i \in DOMAIN SPECIALISTS : SPECIALISTS[i] \notin VisitedSet}
    IN  IF unv = {}
        THEN /\ pending'.by = "hub"
             /\ next' = next
             /\ node' = "hub"
        ELSE \E i \in unv :
                /\ \A j \in 1..(i - 1) : SPECIALISTS[j] \in VisitedSet
                /\ next' = SPECIALISTS[i]
                /\ node' = SPECIALISTS[i]
                /\ pending' = NoCall
                /\ calls' = calls

\* C4: whatever the visited list holds, a hub step routes to the first
\* specialist, in the order of the roster, that is not in visited, and it
\* starts the synthesis (finalizes) exactly when every specialist of the
\* roster is in visited.
C4_HubRoutesToFirstUnvisited ==
    [][(node = "hub" /\ Running) => HubStepDecides]_vars

\* The hub has routed past a visited list that is no prefix of the roster.
C4_Witness ==
    /\ N = 3
    /\ visited = <<SPECIALISTS[3], SPECIALISTS[1]>>
    /\ next = SPECIALISTS[2]
    /\ node = SPECIALISTS[2]

\* The last llm.invoke issued was a spoke's and it raised.
WorkerCallFailed ==
    /\ error = "GenerationFailure"
    /\ calls[Len(calls)].by # "hub"

C5_AbortedState ==
    WorkerCallFailed =>
      LET k == Len(WorkerCalls)
          failing == calls[Len(calls)].by
      IN  /\ 1 <= k /\ k <= N
          /\ Len(messages) = k
          /\ messages[1] = HumanMessage(task)
          /\ \A i \in 2..k : wrote[i - 1].id = messages[i].id
          /\ Len(visited) = k - 1
          /\ Cardinality(VisitedSet) = k - 1
          /\ ~Contains(visited, failing)
          /\ NumWroteBy(failing) = 0
          /\ NumWroteBy("hub") = 0
          /\ ~Terminated

\* C5: when the k-th spoke call raises, the run is aborted with a
\* GenerationFailure and takes no further step; the history then holds k
\* messages (the task and the k - 1 earlier contributions), visited holds
\* k - 1 specialists, and the failing spoke has neither returned a message
\* nor been marked visited.
C5_WorkerFailureAborts ==
    /\ []C5_AbortedState
    /\ [][error = "none"]_vars

C5_Witness == WorkerCallFailed /\ Len(WorkerCalls) = 3 /\ Len(visited) = 2

\* C6: with an empty roster the run is rejected before any call to the
\* Generation Service: no call is issued, no message is appended.
C6_EmptyRosterRejected ==
    N = 0 => /\ calls = <<>>
             /\ pending = NoCall
             /\ Len(messages) = 1

\* C7: the order in which the spokes run is fixed by the roster alone: in
\* every state the spokes executed so far are the first specialists of the
\* roster, in its order, whatever the Generation Service has answered, and
\* a terminated run has executed the whole roster in order (so two runs over
\* one roster dispatch alike, however their replies differ).
C7_DispatchOrderIsTheRoster ==
    /\ IsPrefix(WorkerSteps, SPECIALISTS)
    /\ Terminated => WorkerSteps = SPECIALISTS

\* A terminated run whose replies were not all the same.
C7_Witness ==
    /\ Terminated
    /\ N = 3
    /\ messages[2].content # messages[3].content
    /\ messages[3].content # messages[4].content

CodeFlow == <<"hub", "researcher", "hub", "analyst", "hub", "critic",
              "hub", "writer", "hub">>

\* C8: with the roster researcher, analyst, critic, writer the nodes run in
\* the order hub, researcher, hub, analyst, hub, critic, hub, writer, hub;
\* the run then ends; the synthesis call is given the 5 messages before it
\* (the task and the 4 contributions), and the last message of the result
\* is the synthesis message.
C8_CodeRosterFlow ==
    SPECIALISTS = CodeRoster =>
      /\ IsPrefix(steps, CodeFlow)
      /\ Terminated =>
            /\ steps = CodeFlow
            /\ error = "none"
            /\ Len(calls) = 5
            /\ calls[5].by = "hub"
            /\ Len(calls[5].request) = 6
            /\ calls[5].request[1] = SystemMessage(HubPrompt)
            /\ SubSeq(calls[5].request, 2, 6) = SubSeq(messages, 1, 5)
            /\ Len(messages) = 6
            /\ wrote[5] = [by |-> "hub", id |-> messages[6].id]

C8_Witness == SPECIALISTS = CodeRoster /\ Terminated /\ steps = CodeFlow

\* One execution of the hub's decision, and the decision it took: a
\* specialist to run, or END for the synthesis.
HubStep == HubRoute \/ HubInvoke

Decided(d) ==
    IF d = END THEN pending'.by = "hub" /\ next' = next
    ELSE next' = d /\ node' = d /\ pending' = NoCall

\* The decisions the hub can take in the current state.
HubDecisions == {d \in WorkerNames \cup {END} : ENABLED (HubStep /\ Decided(d))}

\* C9: the hub's decision is a function of the state it reads: in a state
\* where the hub is about to run, exactly one decision is possible, so that
\* running the hub again on the unchanged state decides the same.
C9_HubDecisionIsDeterministic ==
    (node = "hub" /\ Running) => Cardinality(HubDecisions) = 1

\* The hub is about to decide for the third time, two of three visited.
C9_Witness ==
    /\ node = "hub" /\ Running
    /\ N = 3
    /\ Len(visited) = 2
    /\ HubSteps = 2
    /\ HubDecisions = {SPECIALISTS[3]}

\* C10: the history is append-only: every step leaves the history as it
\* was or appends one message to it.
C10_HistoryAppendOnly ==
    [][/\ IsPrefix(messages, messages')
       /\ Len(messages') <= Len(messages) + 1]_vars

C10_Witness == Len(messages) >= 4 /\ Len(wrote) = Len(messages) - 1

\* C11: visited grows monotonically: every step leaves the visited list as
\* it was or extends it; no step removes a specialist from it.
C11_VisitedMonotonic ==
    [][/\ IsPrefix(visited, visited')
       /\ VisitedSet \subseteq {visited'[i] : i \in DOMAIN visited'}]_vars

C11_Witness == Len(visited) = 3 /\ N = 3

\* C12: a spoke only ever runs for a specialist that is not in visited: from
\* the hub's routing to the spoke's return the routed specialist is not in
\* visited, in particular when its call is issued, and visited never holds
\* a specialist twice.
C12_NeverRoutedToVisited ==
    /\ node \in WorkerNames => ~Contains(visited, node)
    /\ pending.by \in WorkerNames => ~Contains(visited, pending.by)
    /\ \A i, j \in DOMAIN visited : i # j => visited[i] # visited[j]

\* The third spoke is running, after two others were visited.
C12_Witness ==
    /\ N = 3
    /\ pending.by = SPECIALISTS[3]
    /\ Len(visited) = 2

\* The last llm.invoke issued was the hub's synthesis call and it raised.
HubCallFailed ==
    /\ error = "GenerationFailure"
    /\ calls[Len(calls)].by = "hub"

C13_AbortedState ==
    HubCallFailed =>
      /\ NumWroteBy("hub") = 0
      /\ Contributions("hub") = {}
      /\ Len(messages) = N + 1
      /\ Len(wrote) = N
      /\ visited = SPECIALISTS
      /\ ~Terminated
      /\ next # END

\* C13: when the hub's synthesis call raises, after the N spokes succeeded,
\* the run is aborted without synthesis: the hub has appended no message,
\* the history keeps its N + 1 messages, visited is the whole roster, and
\* the run takes no further step, so it never reaches the terminal state.
C13_SynthesisFailureAborts ==
    /\ []C13_AbortedState
    /\ [][~HubCallFailed]_vars

C13_Witness == HubCallFailed /\ N = 3 /\ Len(messages) = 4

\* A spoke's call returns in this step.
WorkerReturns == pending.by \in WorkerNames /\ pending' = NoCall /\ error' = "none"

\* C14: star topology: a spoke's return hands control to the hub, whichever
\* spoke ran; in the order of execution every spoke is followed by the hub,
\* never by a spoke; the run starts with the hub; and the terminal state is
\* entered from the hub's step only, never from a spoke's.
C14_StarTopology ==
    /\ [](/\ \A i \in DOMAIN steps :
               steps[i] # "hub" /\ i < Len(steps) => steps[i + 1] = "hub"
          /\ steps # <<>> => steps[1] = "hub"
          /\ Terminated => steps[Len(steps)] = "hub")
    /\ [][WorkerReturns => node' = "hub"]_vars
    /\ [][(node' = END /\ node # END) => (node = "hub" /\ pending.by = "hub")]_vars

C14_Witness ==
    /\ N = 3
    /\ Len(steps) = 5
    /\ steps[4] = SPECIALISTS[2]
    /\ steps[5] = "hub"

\* C15: frame conditions. A hub step that routes sets next and leaves
\* messages and visited as they were; the hub's final update sets next to
\* END, appends one message and leaves visited as it was; a spoke's update
\* appends one message and its own name to visited and leaves next as it
\* was; every other step (the start, the issue of a call, a raising call)
\* leaves messages, visited and next as they were.
C15_FrameConditions ==
    [][ IF node = "hub" /\ Running /\ pending' = NoCall
        THEN /\ messages' = messages
             /\ visited' = visited
             /\ next' # next
             /\ next' \in RosterSet
        ELSE IF pending.by = "hub" /\ error' = "none"
        THEN /\ Len(messages') = Len(messages) + 1
             /\ IsPrefix(messages, messages')
             /\ visited' = visited
             /\ next' = END
             /\ next # END
        ELSE IF WorkerReturns
        THEN /\ Len(messages') = Len(messages) + 1
             /\ IsPrefix(messages, messages')
             /\ visited' = Append(visited, pending.by)
             /\ next' = next
        ELSE UNCHANGED <<messages, visited, next>> ]_vars

C15_Witness == Terminated /\ N = 2 /\ Len(messages) = 4

LastStep == steps[Len(steps)]

\* C16: the executor runs the node that the hub's route names: a node other
\* than the hub is entered only by the hub's step and is the one next names;
\* the spoke that starts is the one next names, right after the hub's step;
\* and the hub's final update, which sets next to END, ends the run, after
\* which no step is taken.
C16_ExecutorFollowsRoute ==
    /\ [](node \notin {START, "hub"} => node = next)
    /\ [][(steps' # steps /\ steps'[Len(steps')] # "hub") =>
             /\ steps'[Len(steps')] = next
             /\ LastStep = "hub"
             /\ steps' = Append(steps, next)]_vars
    /\ [][(node = "hub" /\ next' # next) => node' = next']_vars
    /\ [][~Terminated]_vars

C16_Witness ==
    /\ N = 3
    /\ next = SPECIALISTS[2]
    /\ LastStep = SPECIALISTS[2]
    /\ pending.by = SPECIALISTS[2]

\* C17: every request to the Generation Service is one system message, the
\* caller's own, followed by the whole history as it stood at the call: the
\* k-th call, a spoke's, carries the task and the k - 1 contributions before
\* it, and the synthesis call, the (N+1)-th, carries all N + 1 messages.
C17_RequestIsPromptPlusHistory ==
    \A k \in DOMAIN calls :
        LET c == calls[k]
        IN  /\ Len(c.request) = k + 1
            /\ c.request[1] = SystemMessage(IF c.by = "hub" THEN HubPrompt
                                            ELSE system_prompt(c.by))
            /\ SubSeq(c.request, 2, k + 1) = SubSeq(messages, 1, k)
            /\ c.by = "hub" => k = N + 1
            /\ c.by # "hub" => c.by = SPECIALISTS[k]

C17_Witness ==
    /\ N = 3
    /\ Len(calls) = 4
    /\ calls[3].by = SPECIALISTS[3]
    /\ Len(calls[3].request) = 4
    /\ Len(calls[4].request) = 5

\* C18: liveness. Under the executor's own progress, a run in which every
\* call of the Generation Service returns, and none raises, reaches the
\* terminal state; the runs that never end are those in which a call stays
\* pending for ever (or that were aborted by a raising call).
C18_TerminatesUnlessCallHangs ==
    \/ <>Terminated
    \/ <>(error # "none")
    \/ <>[](pending # NoCall)

C18_Witness == Terminated /\ N = 3 /\ error = "none"

\* The calls issued and neither returned nor raised.
InFlight == Len(calls) - Len(wrote) - (IF error = "none" THEN 0 ELSE 1)

\* C19: single writer: at most one call of the Generation Service is
\* outstanding, it is the call of the one node that is executing, and no
\* node starts, and no call is issued, while a call is outstanding or after
\* one has raised.
C19_SingleWriter ==
    /\ [](/\ InFlight \in {0, 1}
          /\ InFlight = 1 <=> pending # NoCall
          /\ pending # NoCall =>
                /\ pending.by = node
                /\ pending = calls[Len(calls)]
                /\ LastStep = node)
    /\ [][(steps' # steps \/ calls' # calls) =>
             /\ pending = NoCall
             /\ error = "none"
             /\ Len(steps') = Len(steps) + 1
             /\ Len(calls') <= Len(calls) + 1]_vars

C19_Witness ==
    /\ N = 3
    /\ pending.by = SPECIALISTS[2]
    /\ InFlight = 1
    /\ Len(calls) = 2

\* C20: in every state visited, as a list, is the first Len(visited)
\* specialists of the roster in its order; the history holds 1 +
\* Len(visited) messages before the synthesis and 2 + Len(visited) after
\* it; the hub's only message is the synthesis message, returned once every
\* specialist is visited, and it is the last one; and next is END exactly
\* when the synthesis message has been appended.
C20_VisitedIsRosterPrefix ==
    /\ visited = SubSeq(SPECIALISTS, 1, Len(visited))
    /\ Len(visited) <= N
    /\ NumWroteBy("hub") \in {0, 1}
    /\ Len(messages) = 1 + Len(visited) + NumWroteBy("hub")
    /\ NumWroteBy("hub") = 1 =>
          /\ visited = SPECIALISTS
          /\ Contributions("hub") = {Len(messages)}
          /\ wrote[Len(wrote)].by = "hub"
    /\ next = END <=> NumWroteBy("hub") = 1
    /\ next = END <=> Terminated

C20_Witness ==
    /\ N = 3
    /\ Len(visited) = 2
    /\ next = SPECIALISTS[3]
    /\ Len(messages) = 3

====
